---- MODULE Spec2Model ----
(***************************************************************************)
(* Model of camel/retrievers/bm25_retriever.py: the BM25Retriever object   *)
(* (bm25, content_input_path, chunks), its two methods process and query,  *)
(* and the library calls they make (str.split, rank_bm25.BM25Okapi,        *)
(* BM25Okapi.get_scores, numpy.argpartition, list.sort).                   *)
(*                                                                         *)
(* Positions are 1-based here (Python index i is position i+1).            *)
(* Texts are sequences of one-character strings.  Scores are fixed-point   *)
(* integers, one unit = 1e-6.                                              *)
(***************************************************************************)
EXTENDS Integers, Sequences, FiniteSets, TLC

\* ---------------------------------------------------------------- bounds
\* largest number of chunks the loader returns for one content path
MaxDocs == 3

\* ---------------------------------------------------------------- inputs
\* Python's None (a record, so that it compares with the BM25Okapi object)
None == [none |-> TRUE]

\* content paths passed to process()
Paths == {"p1", "p2"}

\* texts of the chunks the loader can return: "a", "a b"
ChunkTexts == {<<"a">>, <<"a", " ", "b">>}

\* query strings: "a", "a b", "c" (no such term in any chunk)
QueryTexts == {<<"a">>, <<"a", " ", "b">>, <<"c">>}

\* top_k arguments: non-positive, within the corpus, beyond the corpus
TopKs == (0 - 1) .. (MaxDocs + 1)

\* chunk lists the loader can return, the empty one included
RECURSIVE SeqsUpTo(_, _)
SeqsUpTo(S, n) ==
    IF n = 0 THEN {<< >>}
    ELSE LET shorter == SeqsUpTo(S, n - 1)
         IN shorter \cup {Append(s, x) : s \in {t \in shorter : Len(t) = n - 1}, x \in S}

Corpora == SeqsUpTo(ChunkTexts, MaxDocs)

\* what the loader does in one process() call: parse_file_or_url raises,
\* chunk_elements raises, or both return and the chunks have these texts
Loads == {<<"parse", << >>>>, <<"chunk", << >>>>} \cup {<<"none", c>> : c \in Corpora}

\* outcomes numpy.argpartition can produce among equal scores (see top_k_indices)
NumpyBuilds == {"selection", "lowest"}

\* ---------------------------------------------------------------- state
VARIABLES
    bm25,                 \* self.bm25: None or the BM25Okapi object
    content_input_path,   \* self.content_input_path
    chunks,               \* self.chunks: sequence of [text, metadata]
    np_build,             \* which argpartition the installed numpy has
    ret,                  \* the last call, its arguments and what it returned / raised
    built,                \* history: None or [path, chunks] of the last process() that returned
    pc,                   \* per thread: position inside process / query
    frame                 \* per thread: arguments and locals of the running call

vars == <<bm25, content_input_path, chunks, np_build, ret, built, pc, frame>>

self_state == <<bm25, content_input_path, chunks>>

\* ---------------------------------------------------------------- str.split(" ")
RECURSIVE Split(_)
Split(s) ==
    IF \A i \in 1..Len(s) : s[i] # " " THEN <<s>>
    ELSE LET i == CHOOSE i \in 1..Len(s) : s[i] = " " /\ \A j \in 1..(i - 1) : s[j] # " "
         IN <<SubSeq(s, 1, i - 1)>> \o Split(SubSeq(s, i + 1, Len(s)))

\* what chunk_elements returns for the loaded texts: elements with text and metadata
MakeChunks(path, texts) ==
    [i \in 1..Len(texts) |-> [text |-> texts[i], metadata |-> [filename |-> path, element |-> i]]]

\* tokenized_corpus = [str(chunk).split(" ") for chunk in self.chunks]
tokenized_corpus(cs) == [i \in 1..Len(cs) |-> Split(cs[i].text)]

\* ---------------------------------------------------------------- rank_bm25.BM25Okapi
Range(s) == {s[i] : i \in 1..Len(s)}

Count(s, w) == Cardinality({i \in 1..Len(s) : s[i] = w})

RECURSIVE SumSeq(_)
SumSeq(s) == IF Len(s) = 0 THEN 0 ELSE s[1] + SumSeq(Tail(s))

RECURSIVE SumOver(_, _)
SumOver(f, S) ==
    IF S = {} THEN 0
    ELSE LET x == CHOOSE x \in S : TRUE IN f[x] + SumOver(f, S \ {x})

\* 1e6 * ln(n) for the odd n that 2*(N - df) + 1 and 2*df + 1 take
Ln(n) ==
    CASE n = 1 -> 0
      [] n = 3 -> 1098612
      [] n = 5 -> 1609438
      [] n = 7 -> 1945910
      [] n = 9 -> 2197225
      [] n = 11 -> 2397895
      [] n = 13 -> 2564949

\* BM25Okapi(corpus): _initialize then _calc_idf; the caller guards Len(corpus) > 0
\* (avgdl = num_doc / corpus_size raises ZeroDivisionError on an empty corpus)
BM25Okapi(corpus) ==
    LET n == Len(corpus)
        words == UNION {Range(corpus[d]) : d \in 1..n}
        df == [w \in words |-> Cardinality({d \in 1..n : w \in Range(corpus[d])})]
        raw == [w \in words |-> Ln(2 * (n - df[w]) + 1) - Ln(2 * df[w] + 1)]
        \* eps = epsilon * average_idf with epsilon = 0.25
        eps == SumOver(raw, words) \div (4 * Cardinality(words))
    IN [corpus_size |-> n,
        doc_len |-> [d \in 1..n |-> Len(corpus[d])],
        num_doc |-> SumSeq([d \in 1..n |-> Len(corpus[d])]),
        doc_freqs |-> [d \in 1..n |-> [w \in Range(corpus[d]) |-> Count(corpus[d], w)]],
        idf |-> [w \in words |-> IF raw[w] < 0 THEN eps ELSE raw[w]]]

\* one query term's contribution to one document, k1 = 1.5 and b = 0.75:
\*   idf * tf * (k1 + 1) / (tf + k1 * (1 - b + b * doc_len / avgdl))
\* with avgdl = num_doc / corpus_size, numerator and denominator times 8 * num_doc
TermScore(bm, q, d) ==
    LET tf == IF q \in DOMAIN bm.doc_freqs[d] THEN bm.doc_freqs[d][q] ELSE 0
        idf == IF q \in DOMAIN bm.idf THEN bm.idf[q] ELSE 0
    IN (idf * 20 * tf * bm.num_doc)
           \div (8 * tf * bm.num_doc + 3 * bm.num_doc + 9 * bm.doc_len[d] * bm.corpus_size)

\* BM25Okapi.get_scores(query): one score per document of the model's corpus
get_scores(bm, query) ==
    [d \in 1..bm.corpus_size |-> SumSeq([j \in 1..Len(query) |-> TermScore(bm, query[j], d)])]

\* ---------------------------------------------------------------- numpy.argpartition
Swap(s, i, j) == [s EXCEPT ![i] = s[j], ![j] = s[i]]

\* numpy's selection loop for small kth: kth + 1 rounds of "swap the first minimum forward"
RECURSIVE dumb_select(_, _, _, _)
dumb_select(v, tosort, i, rounds) ==
    IF i > rounds THEN tosort
    ELSE LET n == Len(v)
             minidx == CHOOSE p \in i..n :
                           \A q \in i..n : /\ v[tosort[p]] <= v[tosort[q]]
                                           /\ (q < p => v[tosort[q]] > v[tosort[p]])
         IN dumb_select(v, Swap(tosort, i, minidx), i + 1, rounds)

\* positions ordered by score descending, equal scores by ascending position
RECURSIVE Ranked(_, _)
Ranked(v, S) ==
    IF S = {} THEN << >>
    ELSE LET best == CHOOSE p \in S :
                         \A q \in S \ {p} : \/ v[p] > v[q]
                                            \/ (v[p] = v[q] /\ p < q)
         IN <<best>> \o Ranked(v, S \ {best})

\* np.argpartition(scores, -top_k)[-top_k:], for 1 <= top_k <= len(scores).
\* The k positions hold the k largest scores; which of several equal scores are
\* taken, and in what order they are listed, depends on the numpy in use.
top_k_indices(build, scores, top_k) ==
    LET n == Len(scores)
        kth == n - top_k
        ident == [p \in 1..n |-> p]
    IN CASE build = "selection" ->
              IF kth >= 3 /\ top_k = 1
              THEN \* kth = num - 1: the last maximum is swapped to the end
                   <<CHOOSE p \in 1..n : \A q \in 1..n : /\ scores[q] <= scores[p]
                                                        /\ (q > p => scores[q] < scores[p])>>
              ELSE SubSeq(dumb_select(scores, ident, 1, kth + 1), kth + 1, n)
         [] build = "lowest" -> SubSeq(Ranked(scores, 1..n), 1, top_k)

\* ---------------------------------------------------------------- list.sort
\* formatted_results.sort(key=similarity score, reverse=True): stable, equal keys keep their order
\* variant: the final sort left out
sort_reverse_none(rs) == rs

RECURSIVE sort_reverse(_)
sort_reverse(rs) ==
    IF Len(rs) = 0 THEN << >>
    ELSE LET first == CHOOSE p \in 1..Len(rs) :
                          \A q \in 1..Len(rs) : /\ rs[q].score <= rs[p].score
                                                /\ (q < p => rs[q].score < rs[p].score)
         IN <<rs[first]>> \o sort_reverse(SubSeq(rs, 1, first - 1) \o SubSeq(rs, first + 1, Len(rs)))

\* ---------------------------------------------------------------- query
\* one result_dict; id is the position i the dict was built from
result_dict(scores, i, path, cs) ==
    [id |-> i, score |-> scores[i], path |-> path,
     metadata |-> cs[i].metadata, text |-> cs[i].text]

Raised(kind) == [status |-> kind, results |-> << >>]

Returned(rs) == [status |-> "ok", results |-> rs]

\* variant: the two checks of lines 112-118 in the other order
query_swapped(bm, path, cs, build, text, top_k) ==
    IF bm = None THEN Raised("NotReady")
    ELSE IF top_k <= 0 THEN Raised("InvalidArgument")
    ELSE LET scores == get_scores(bm, Split(text))
         IN IF top_k > Len(scores) THEN Raised("KthOutOfBounds")
            ELSE LET idx == top_k_indices(build, scores, top_k)
                 IN IF \E j \in 1..Len(idx) : idx[j] > Len(cs) THEN Raised("IndexError")
                    ELSE Returned(sort_reverse(
                             [j \in 1..Len(idx) |-> result_dict(scores, idx[j], path, cs)]))

\* the whole of query(text, top_k) on the object (bm, path, cs)
query(bm, path, cs, build, text, top_k) ==
    IF top_k <= 0 THEN Raised("InvalidArgument")
    ELSE IF bm = None THEN Raised("NotReady")
    ELSE LET scores == get_scores(bm, Split(text))
         IN IF top_k > Len(scores) THEN Raised("KthOutOfBounds")
            ELSE LET idx == top_k_indices(build, scores, top_k)
                 IN IF \E j \in 1..Len(idx) : idx[j] > Len(cs) THEN Raised("IndexError")
                    ELSE Returned(sort_reverse(
                             [j \in 1..Len(idx) |-> result_dict(scores, idx[j], path, cs)]))

\* ---------------------------------------------------------------- sequential calls
Threads == {1, 2}

Idle == [op |-> "idle"]

Init ==
    /\ bm25 = None
    /\ content_input_path = ""
    /\ chunks = << >>
    /\ np_build \in NumpyBuilds
    /\ ret = [op |-> "init"]
    /\ built = None
    /\ pc = [t \in Threads |-> "idle"]
    /\ frame = [t \in Threads |-> Idle]

ProcessRet(path, load, status) ==
    [op |-> "process", path |-> path, load |-> load, status |-> status]

QueryRet(text, top_k, r) ==
    [op |-> "query", text |-> text, top_k |-> top_k, status |-> r.status, results |-> r.results]

\* variant: process() clears the model on entry
process_reset(path, load) ==
    /\ content_input_path' = path
    /\ IF load[1] # "none"
       THEN /\ bm25' = None
            /\ UNCHANGED <<chunks, built>>
            /\ ret' = ProcessRet(path, load, "IngestFailure")
       ELSE /\ chunks' = MakeChunks(path, load[2])
            /\ \E tokenized \in {tokenized_corpus(MakeChunks(path, load[2]))} :
                   IF Len(tokenized) = 0
                   THEN /\ bm25' = None
                        /\ UNCHANGED built
                        /\ ret' = ProcessRet(path, load, "ZeroDivisionError")
                   ELSE /\ bm25' = BM25Okapi(tokenized)
                        /\ built' = [path |-> path, chunks |-> chunks']
                        /\ ret' = ProcessRet(path, load, "ok")
    /\ UNCHANGED <<np_build, pc, frame>>

\* process(path) run to its end; load = <<where the loader raises, texts it returns>>
\* (tokenized is the local tokenized_corpus of line 82, read from the chunks just stored)
process(path, load) ==
    /\ content_input_path' = path
    /\ IF load[1] # "none"
       THEN /\ UNCHANGED <<chunks, bm25, built>>
            /\ ret' = ProcessRet(path, load, "IngestFailure")
       ELSE /\ chunks' = MakeChunks(path, load[2])
            /\ \E tokenized \in {tokenized_corpus(MakeChunks(path, load[2]))} :
                   IF Len(tokenized) = 0
                   THEN /\ UNCHANGED <<bm25, built>>
                        /\ ret' = ProcessRet(path, load, "ZeroDivisionError")
                   ELSE /\ bm25' = BM25Okapi(tokenized)
                        /\ built' = [path |-> path, chunks |-> chunks']
                        /\ ret' = ProcessRet(path, load, "ok")
    /\ UNCHANGED <<np_build, pc, frame>>

\* variant: a query that answers drops the model afterwards
Query_oneshot(text, top_k) ==
    /\ ret' = QueryRet(text, top_k, query(bm25, content_input_path, chunks, np_build, text, top_k))
    /\ bm25' = IF ret'.status = "ok" THEN None ELSE bm25
    /\ UNCHANGED <<content_input_path, chunks, np_build, built, pc, frame>>

\* query(text, top_k) run to its end
Query(text, top_k) ==
    /\ ret' = QueryRet(text, top_k, query(bm25, content_input_path, chunks, np_build, text, top_k))
    /\ UNCHANGED <<bm25, content_input_path, chunks, np_build, built, pc, frame>>

Next ==
    \/ \E path \in Paths, load \in Loads : process(path, load)
    \/ \E text \in QueryTexts, top_k \in TopKs : Query(text, top_k)

Spec == Init /\ [][Next]_vars

\* ---------------------------------------------------------------- properties of the calls
\* (Spec: ret is the last call; a query leaves the object as it found it)

IsQuery(r) == r.op = "query"

IsProcess(r) == r.op = "process"

ResultIds(rs) == {rs[i].id : i \in 1..Len(rs)}

Distinct(rs) == \A i, j \in 1..Len(rs) : i # j => rs[i].id # rs[j].id

NonIncreasing(rs) == \A i \in 1..(Len(rs) - 1) : rs[i].score >= rs[i + 1].score

\* the object is as the last process() that returned left it
AsBuilt == built # None /\ chunks = built.chunks /\ content_input_path = built.path

\* C1: with N >= 1 documents ingested and 1 <= top_k <= N, a query returns at
\* most top_k results, no two for the same document, scores non-increasing
\* (and it does return when the object is as the ingest left it).
C1_TopKDistinctSorted ==
    (IsQuery(ret) /\ built # None /\ ret.top_k >= 1 /\ ret.top_k <= Len(built.chunks)) =>
        /\ (AsBuilt => ret.status = "ok")
        /\ Len(ret.results) <= ret.top_k
        /\ Distinct(ret.results)
        /\ NonIncreasing(ret.results)

\* a query over three documents returned two results with different scores
C1_Witness ==
    /\ IsQuery(ret) /\ ret.status = "ok" /\ AsBuilt
    /\ Len(chunks) = 3 /\ ret.top_k = 2 /\ Len(ret.results) = 2
    /\ ret.results[1].score > ret.results[2].score

\* C2: a query with positive top_k raises NotReady exactly when no process()
\* has returned yet, failed process() calls included.
C2_NotReadyIffNeverBuilt ==
    (IsQuery(ret) /\ ret.top_k > 0) => (ret.status = "NotReady" <=> built = None)

\* NotReady after a process() call that raised part-way
C2_Witness ==
    /\ IsQuery(ret) /\ ret.top_k > 0 /\ ret.status = "NotReady"
    /\ content_input_path # ""

\* C3: a query with top_k <= 0 raises InvalidArgument, returns nothing and
\* leaves model, chunks and content path as they were, in every state.
C3_InvalidTopK ==
    [][(IsQuery(ret') /\ ret'.top_k <= 0) =>
           /\ ret'.status = "InvalidArgument"
           /\ ret'.results = << >>
           /\ UNCHANGED self_state]_vars

\* InvalidArgument although the model is built
C3_Witness ==
    IsQuery(ret) /\ ret.top_k <= 0 /\ ret.status = "InvalidArgument" /\ bm25 # None

\* C4: a process() call that raises leaves model, chunks and content path
\* as they were before the call.
C4_FailedIngestAtomic ==
    [][(IsProcess(ret') /\ ret'.status # "ok") => UNCHANGED self_state]_vars

\* C5: top_k beyond the N ingested documents returns all N, one per
\* document, scores non-increasing, and raises nothing.
C5_TopKBeyondCorpus ==
    (IsQuery(ret) /\ AsBuilt /\ ret.top_k > Len(chunks)) =>
        /\ ret.status = "ok"
        /\ Len(ret.results) = Len(chunks)
        /\ ResultIds(ret.results) = 1..Len(chunks)
        /\ NonIncreasing(ret.results)

\* C6: equal scores come in ascending document order, and of the documents
\* tied at the cut-off the ones with the smallest ids are the ones returned.
C6_TiesByDocumentId ==
    (IsQuery(ret) /\ ret.status = "ok") =>
        LET rs == ret.results
            scores == get_scores(bm25, Split(ret.text))
        IN /\ \A i, j \in 1..Len(rs) :
                  (i < j /\ rs[i].score = rs[j].score) => rs[i].id < rs[j].id
           /\ \A d \in (1..Len(scores)) \ ResultIds(rs) : \A i \in 1..Len(rs) :
                  \/ scores[d] < rs[i].score
                  \/ (scores[d] = rs[i].score /\ d > rs[i].id)

\* C8: process() of a content with no chunks returns normally and leaves the
\* retriever ready, and queries with positive top_k then return the empty list.
C8_EmptyCorpus ==
    /\ (IsProcess(ret) /\ ret.load = <<"none", << >>>>) => (ret.status = "ok" /\ bm25 # None)
    /\ (IsQuery(ret) /\ ret.top_k > 0 /\ built # None /\ chunks = << >>) =>
           (ret.status = "ok" /\ ret.results = << >>)

\* C9: a query, returning or raising, leaves model, chunks and content path
\* unchanged, and repeats the previous query's answer for the same arguments.
C9_QueryReadOnly ==
    [][IsQuery(ret') =>
           /\ UNCHANGED self_state
           /\ (IsQuery(ret) /\ ret.text = ret'.text /\ ret.top_k = ret'.top_k) => ret' = ret]_vars

\* a query returned every document of a two-document corpus and the object is
\* still as the ingest left it
C9_Witness ==
    /\ IsQuery(ret) /\ ret.status = "ok" /\ AsBuilt
    /\ Len(chunks) = 2 /\ Len(ret.results) = 2

\* C10: a model, once set, is the model of the current chunks, and every
\* result is a chunk of the last process() that returned, with its path.
C10_ModelMatchesChunks ==
    /\ bm25 # None =>
           /\ chunks = built.chunks
           /\ bm25 = BM25Okapi(tokenized_corpus(chunks))
    /\ (IsQuery(ret) /\ ret.status = "ok") =>
           \A i \in 1..Len(ret.results) :
               LET r == ret.results[i]
               IN /\ r.path = built.path
                  /\ r.id <= Len(built.chunks)
                  /\ r.text = built.chunks[r.id].text
                  /\ r.metadata = built.chunks[r.id].metadata

\* ---------------------------------------------------------------- threads
\* The same two methods, one shared-attribute access per step, for calls made
\* from several threads on one retriever (the class takes no lock).

\* process() calls of the threads, <<path, load>>: content "a" at p1 and content
\* "a b", "a" at p2.  Every load succeeds, so whatever a query mixes up comes
\* from the interleaving alone.
ConcIngests == {<<"p1", <<"none", <<<<"a">>>>>>>>,
                <<"p2", <<"none", <<<<"a", " ", "b">>, <<"a">>>>>>>>}

\* query() calls of the threads: the text "a b" with top_k 1 or 2
ConcQueryTexts == {<<"a", " ", "b">>}

ConcTopKs == 1..2

Finish(t, r) ==
    /\ ret' = r
    /\ pc' = [pc EXCEPT ![t] = "idle"]
    /\ frame' = [frame EXCEPT ![t] = Idle]

\* line 74: self.content_input_path = content_input_path
p_call(t, path, load) ==
    /\ pc[t] = "idle"
    /\ content_input_path' = path
    /\ pc' = [pc EXCEPT ![t] = "p_parse"]
    /\ frame' = [frame EXCEPT ![t] = [op |-> "process", path |-> path, load |-> load]]
    /\ UNCHANGED <<bm25, chunks, np_build, ret, built>>

\* lines 75-77: elements = parse_file_or_url(...)
p_parse(t) ==
    /\ pc[t] = "p_parse"
    /\ IF frame[t].load[1] = "parse"
       THEN Finish(t, ProcessRet(frame[t].path, frame[t].load, "IngestFailure"))
       ELSE /\ pc' = [pc EXCEPT ![t] = "p_chunk"]
            /\ UNCHANGED <<ret, frame>>
    /\ UNCHANGED <<bm25, content_input_path, chunks, np_build, built>>

\* lines 78-79: self.chunks = chunk_elements(...)
p_chunk(t) ==
    /\ pc[t] = "p_chunk"
    /\ IF frame[t].load[1] = "chunk"
       THEN /\ Finish(t, ProcessRet(frame[t].path, frame[t].load, "IngestFailure"))
            /\ UNCHANGED chunks
       ELSE /\ chunks' = MakeChunks(frame[t].path, frame[t].load[2])
            /\ pc' = [pc EXCEPT ![t] = "p_tokenize"]
            /\ UNCHANGED <<ret, frame>>
    /\ UNCHANGED <<bm25, content_input_path, np_build, built>>

\* line 82: tokenized_corpus = [... for chunk in self.chunks]
p_tokenize(t) ==
    /\ pc[t] = "p_tokenize"
    /\ frame' = [frame EXCEPT ![t] =
                    [op |-> "process", path |-> frame[t].path, load |-> frame[t].load,
                     tokenized |-> tokenized_corpus(chunks)]]
    /\ pc' = [pc EXCEPT ![t] = "p_build"]
    /\ UNCHANGED <<bm25, content_input_path, chunks, np_build, ret, built>>

\* line 83: self.bm25 = BM25Okapi(tokenized_corpus)
p_build(t) ==
    /\ pc[t] = "p_build"
    /\ IF Len(frame[t].tokenized) = 0
       THEN /\ Finish(t, ProcessRet(frame[t].path, frame[t].load, "ZeroDivisionError"))
            /\ UNCHANGED <<bm25, built>>
       ELSE /\ bm25' = BM25Okapi(frame[t].tokenized)
            /\ built' = [path |-> frame[t].path,
                         chunks |-> MakeChunks(frame[t].path, frame[t].load[2])]
            /\ Finish(t, ProcessRet(frame[t].path, frame[t].load, "ok"))
    /\ UNCHANGED <<content_input_path, chunks, np_build>>

\* lines 112-118: the two argument / state checks
q_call(t, text, top_k) ==
    /\ pc[t] = "idle"
    /\ IF top_k <= 0 THEN Finish(t, QueryRet(text, top_k, Raised("InvalidArgument")))
       ELSE IF bm25 = None THEN Finish(t, QueryRet(text, top_k, Raised("NotReady")))
       ELSE /\ pc' = [pc EXCEPT ![t] = "q_scores"]
            /\ frame' = [frame EXCEPT ![t] = [op |-> "query", text |-> text, top_k |-> top_k]]
            /\ UNCHANGED ret
    /\ UNCHANGED <<bm25, content_input_path, chunks, np_build, built>>

\* lines 121-125: scores = self.bm25.get_scores(...); top_k_indices = argpartition(...)
\* model_of remembers which process() call stored the model the scores come from
q_scores(t) ==
    /\ pc[t] = "q_scores"
    /\ LET scores == get_scores(bm25, Split(frame[t].text))
       IN IF frame[t].top_k > Len(scores)
          THEN Finish(t, QueryRet(frame[t].text, frame[t].top_k, Raised("KthOutOfBounds")))
          ELSE /\ frame' = [frame EXCEPT ![t] =
                              [op |-> "query", text |-> frame[t].text, top_k |-> frame[t].top_k,
                               scores |-> scores,
                               top_k_indices |-> top_k_indices(np_build, scores, frame[t].top_k),
                               formatted_results |-> << >>,
                               result_dict |-> [id |-> 0],
                               model_of |-> built]]
               /\ pc' = [pc EXCEPT ![t] = "q_path"]
               /\ UNCHANGED ret
    /\ UNCHANGED <<bm25, content_input_path, chunks, np_build, built>>

\* the position the loop is at
LoopIndex(t) == frame[t].top_k_indices[Len(frame[t].formatted_results) + 1]

\* lines 128-131: next i; 'similarity score': scores[i], 'content path': self.content_input_path
q_path(t) ==
    /\ pc[t] = "q_path"
    /\ frame' = [frame EXCEPT ![t].result_dict =
                    [id |-> LoopIndex(t), score |-> frame[t].scores[LoopIndex(t)],
                     path |-> content_input_path]]
    /\ pc' = [pc EXCEPT ![t] = "q_metadata"]
    /\ UNCHANGED <<bm25, content_input_path, chunks, np_build, ret, built>>

\* line 132: 'metadata': self.chunks[i].metadata.to_dict()
q_metadata(t) ==
    /\ pc[t] = "q_metadata"
    /\ IF LoopIndex(t) > Len(chunks)
       THEN Finish(t, QueryRet(frame[t].text, frame[t].top_k, Raised("IndexError")))
       ELSE /\ frame' = [frame EXCEPT ![t].result_dict =
                           [id |-> frame[t].result_dict.id, score |-> frame[t].result_dict.score,
                            path |-> frame[t].result_dict.path,
                            metadata |-> chunks[LoopIndex(t)].metadata]]
            /\ pc' = [pc EXCEPT ![t] = "q_text"]
            /\ UNCHANGED ret
    /\ UNCHANGED <<bm25, content_input_path, chunks, np_build, built>>

\* lines 133-135: 'text': str(self.chunks[i]); formatted_results.append(result_dict)
q_text(t) ==
    /\ pc[t] = "q_text"
    /\ IF LoopIndex(t) > Len(chunks)
       THEN Finish(t, QueryRet(frame[t].text, frame[t].top_k, Raised("IndexError")))
       ELSE /\ frame' = [frame EXCEPT
                           ![t].formatted_results =
                               Append(@, [id |-> frame[t].result_dict.id,
                                          score |-> frame[t].result_dict.score,
                                          path |-> frame[t].result_dict.path,
                                          metadata |-> frame[t].result_dict.metadata,
                                          text |-> chunks[LoopIndex(t)].text]),
                           ![t].result_dict = [id |-> 0]]
            /\ pc' = [pc EXCEPT ![t] =
                         IF Len(frame[t].formatted_results) + 1 = Len(frame[t].top_k_indices)
                         THEN "q_sort" ELSE "q_path"]
            /\ UNCHANGED ret
    /\ UNCHANGED <<bm25, content_input_path, chunks, np_build, built>>

\* lines 138-141: formatted_results.sort(...); return formatted_results
q_sort(t) ==
    /\ pc[t] = "q_sort"
    /\ Finish(t, QueryRet(frame[t].text, frame[t].top_k,
                          Returned(sort_reverse(frame[t].formatted_results))))
    /\ UNCHANGED <<bm25, content_input_path, chunks, np_build, built>>

NextConc ==
    \/ \E t \in Threads, call \in ConcIngests : p_call(t, call[1], call[2])
    \/ \E t \in Threads : p_parse(t)
    \/ \E t \in Threads : p_chunk(t)
    \/ \E t \in Threads : p_tokenize(t)
    \/ \E t \in Threads : p_build(t)
    \/ \E t \in Threads, text \in ConcQueryTexts, top_k \in ConcTopKs : q_call(t, text, top_k)
    \/ \E t \in Threads : q_scores(t)
    \/ \E t \in Threads : q_path(t)
    \/ \E t \in Threads : q_metadata(t)
    \/ \E t \in Threads : q_text(t)
    \/ \E t \in Threads : q_sort(t)

SpecConc == Init /\ [][NextConc]_vars

\* C7: no query pairs the scores of one process() call's model with the
\* chunks or the content path of another call, and none raises IndexError.
C7_NoMixedIngest ==
    /\ \A t \in Threads :
           (frame[t].op = "query" /\ pc[t] \in {"q_path", "q_metadata", "q_text", "q_sort"}) =>
               \A i \in 1..Len(frame[t].formatted_results) :
                   LET r == frame[t].formatted_results[i]
                       m == frame[t].model_of
                   IN /\ r.path = m.path
                      /\ r.id <= Len(m.chunks)
                      /\ r.text = m.chunks[r.id].text
                      /\ r.metadata = m.chunks[r.id].metadata
    /\ IsQuery(ret) => ret.status # "IndexError"

====
